---- MODULE Spec2Model ----
(***************************************************************************)
(* Model of the sim-os scheduler engine (src/simulations/Scheduler.hpp)    *)
(* and of the DSL interpreter that configures it (src/lang/Interpreter.hpp)*)
(* Processes live on a heap and are referred to by handle, as the code     *)
(* shares them through std::shared_ptr.  One action per driver operation:  *)
(* Interpreter::eval, emplace_process, step, restart,                      *)
(* switch_schedule_policy and the assignment to threads_count.  The plot   *)
(* buffer of the GUI (src/gui/Gui.hpp) is modelled with its two            *)
(* operations, emplace_point and clear.                                    *)
(***************************************************************************)
EXTENDS Integers, Sequences, FiniteSets, TLC

\* ------------------------------------------------------------------ bounds
MaxProcs    == 2   \* emplace_process calls in one behaviour
MaxTimer    == 9  \* step is not called once timer has reached this value
MaxRunTimer == 6   \* in runs with reconfiguration, step is not called once timer has reached this value
MaxOpTimer  == 1   \* emplace_process and configuration changes come while timer <= MaxOpTimer
MaxRestarts == 1   \* restart calls in one behaviour
MaxConfig   == 2   \* threads_count assignments / policy switches
MaxPlaced   == 4   \* emplace_process calls in a placement scenario
MaxStatements == 2 \* top-level statements of a DSL program
MaxDslTimer == 1   \* step calls after the DSL program has been evaluated
MaxRandomStatements == 3 \* top-level statements of a program that spawns random processes
MaxLaneProcs == 3 \* emplace_process calls in a comparison of workloads
MaxPhaseProcs == 4 \* emplace_process calls in a run that observes the phases of step
MaxCapacity == 3 \* largest capacity of a plot buffer
MaxPoints == 7 \* emplace_point calls in one behaviour
MaxClears == 2 \* clear calls in one behaviour
MaxBackupRestarts == 2 \* restart calls in a run that observes the backup
MaxBackupTimer == 3 \* in a run that observes the backup, step is not called once timer has reached this value

\* ------------------------------------------------------- program constants
MAX_THREADS == 9
SIZE_MAX == 99                  \* the largest std::size_t, scaled to two decimal digits
NULL == 0                       \* an empty ProcessPtr
Cores == 0 .. (MAX_THREADS - 1) \* index range of the per-core std::array

\* std::optional<std::size_t>: <<>> is std::nullopt, <<v>> holds v
nullopt == <<>>
has_value(o) == o # <<>>
value(o) == o[1]
make_optional(v) == <<v>>

\* Os::Event
Event(k, d, u) == [kind |-> k, duration |-> d, resource_usage |-> u]

\* Os::Process as constructed by emplace_process(name, pid, arrival, events)
Process(name, pid, arrival, events) ==
    [name |-> name, pid |-> pid, arrival |-> arrival, events |-> events,
     start_time |-> nullopt, finish_time |-> nullopt]

\* The workloads handed to emplace_process.  resource_usage is a percentage.
ProcA == Process("A", 0, 0, <<Event("Cpu", 3, 50)>>)
ProcB == Process("B", 1, 0, <<Event("Cpu", 2, 40), Event("Io", 2, 10), Event("Cpu", 1, 60)>>)
ProcX == Process("X", 10, 0, <<Event("Cpu", 5, 70)>>)
ProcY == Process("Y", 11, 0, <<Event("Cpu", 3, 80)>>)
ProcE == Process("E", 2, 1, <<>>)
ProcI == Process("I", 3, 1, <<Event("Io", 1, 20), Event("Cpu", 1, 30), Event("Io", 1, 20)>>)
ProcW == Process("W", 4, 1, <<Event("Io", 2, 20), Event("Cpu", 2, 30)>>)
Workloads == {ProcA, ProcB, ProcX, ProcY, ProcE, ProcI}

\* FirstComeFirstServedPolicy and RoundRobinPolicy { quantum }
FCFS == [kind |-> "FirstComeFirstServed", quantum |-> 0]
RR(q) == [kind |-> "RoundRobin", quantum |-> q]
Policies == {FCFS, RR(2)}

\* The values the DSL assigns to threads_count
ThreadCounts == {1, 2}

VARIABLES
    heap,          \* the Os::Process objects, indexed by handle
    running,       \* running[t]: handle or NULL
    processes,     \* processes[t]: pending queue of handles
    waiting,       \* waiting[t]
    ready,         \* ready[t]
    schedule_policy,
    timer,
    cpu_usage,
    threads_count,
    next_thread,
    throughput,    \* <<finished.size(), timer>> as a fraction, <<0, 1>> for 0
    previous_finished_count,
    finished,      \* sequence of handles
    processes_backup,  \* processes_backup[t]: sequence of Process values
    valid_backup,
    pc,            \* "idle" between operations, "spin" when step never returns,
                   \* "abort" when an assertion of the engine failed, "ub" after
                   \* undefined behaviour
    emplaces,      \* history: emplace_process calls so far
    restarts,      \* history: restart calls so far
    configs,       \* history: threads_count assignments and policy switches
    reconfigured,  \* history: a configuration change or emplace came after the first step
    before_restart, \* history: timer and finished (pid, finish_time) at the last restart
    limits,        \* max_processes, max_events_per_process, max_single_event_duration,
                   \* max_arrival_time
    interpreter,   \* the build and the last call of Interpreter::eval: its source,
                   \* the scheduler before it, what it returned and printed
    buffer,        \* a Plotting::RingBuffer: capacity, cursor, data
    plotted        \* history: the points emplaced since the last clear, and the
                   \* numbers of emplace_point and clear calls so far

vars == <<heap, running, processes, waiting, ready, schedule_policy, timer,
          cpu_usage, threads_count, next_thread, throughput,
          previous_finished_count, finished, processes_backup, valid_backup,
          pc, emplaces, restarts, configs, reconfigured, before_restart,
          limits, interpreter, buffer, plotted>>

\* The part of the scheduler that step and its helpers read and write.
Sim == [heap |-> heap, running |-> running, processes |-> processes,
        waiting |-> waiting, ready |-> ready, timer |-> timer,
        cpu_usage |-> cpu_usage, throughput |-> throughput,
        previous_finished_count |-> previous_finished_count,
        finished |-> finished, pc |-> pc]

\* --------------------------------------------------------- sequence helpers
RemoveAt(q, i) == SubSeq(q, 1, i - 1) \o SubSeq(q, i + 1, Len(q))
Range(q) == {q[i] : i \in 1 .. Len(q)}

RECURSIVE SumSeq(_)
SumSeq(q) == IF q = <<>> THEN 0 ELSE Head(q) + SumSeq(Tail(q))

\* ------------------------------------------------ Scheduler private helpers

\* Scheduler::ensure_pid_is_unique
ensure_pid_is_unique_Unchecked(s, thread_idx, pid) == TRUE
ensure_pid_is_unique(s, thread_idx, pid) ==
    /\ (s.running[thread_idx] = NULL \/ s.heap[s.running[thread_idx]].pid # pid)
    /\ \A i \in 1 .. Len(s.ready[thread_idx]) : s.heap[s.ready[thread_idx][i]].pid # pid
    /\ \A i \in 1 .. Len(s.waiting[thread_idx]) : s.heap[s.waiting[thread_idx][i]].pid # pid

\* The assignment to start_time in dispatch_process_by_first_event:
\*   start_time = !start_time.has_value() ? optional{timer} : nullopt
dispatch_start_time_NextTick(start_time, now) ==
    IF ~has_value(start_time) THEN make_optional(now + 1) ELSE nullopt
dispatch_start_time(start_time, now) ==
    IF ~has_value(start_time) THEN make_optional(now) ELSE nullopt

\* The assignment to finish_time in update_waiting_list:
\*   finish_time = !finish_time.has_value() ? optional{timer} : nullopt
waiting_finish_time(finish_time, now) ==
    IF ~has_value(finish_time) THEN make_optional(now) ELSE nullopt

\* Scheduler::dispatch_process_by_first_event
dispatch_process_by_first_event_AllReady(s, thread_idx, h) ==
    IF s.heap[h].events = <<>> THEN [s EXCEPT !.pc = "abort"]
    ELSE [s EXCEPT !.heap[h].start_time = dispatch_start_time(@, s.timer),
                   !.ready[thread_idx] = Append(@, h)]
dispatch_process_by_first_event(s, thread_idx, h) ==
    IF s.heap[h].events = <<>> THEN [s EXCEPT !.pc = "abort"]
    ELSE IF Head(s.heap[h].events).kind = "Cpu"
    THEN [s EXCEPT !.heap[h].start_time = dispatch_start_time(@, s.timer),
                   !.ready[thread_idx] = Append(@, h)]
    ELSE [s EXCEPT !.waiting[thread_idx] = Append(@, h)]

\* Scheduler::sidetrack_processes, the loop from iterator position i on.
\* The two rejection branches `continue` without advancing the iterator, so
\* the loop re-examines the same process for ever: step never returns.
RECURSIVE sidetrack_from(_, _, _)
sidetrack_from(s, thread_idx, i) ==
    IF s.pc # "idle" \/ i > Len(s.processes[thread_idx]) THEN s
    ELSE LET h == s.processes[thread_idx][i]
             process == s.heap[h]
         IN IF process.arrival # s.timer
            THEN sidetrack_from(s, thread_idx, i + 1)
            ELSE IF ~ensure_pid_is_unique(s, thread_idx, process.pid)
            THEN [s EXCEPT !.pc = "spin"]
            ELSE IF process.events = <<>>
            THEN [s EXCEPT !.pc = "spin"]
            ELSE LET d == dispatch_process_by_first_event(s, thread_idx, h)
                 IN sidetrack_from([d EXCEPT !.processes[thread_idx] = RemoveAt(@, i)],
                                   thread_idx, i)

sidetrack_processes(s, thread_idx) == sidetrack_from(s, thread_idx, 1)

\* The trailing loop of update_waiting_list over to_dispatch.
RECURSIVE dispatch_all(_, _, _)
dispatch_all(s, thread_idx, to_dispatch) ==
    IF to_dispatch = <<>> \/ s.pc # "idle" THEN s
    ELSE dispatch_all(dispatch_process_by_first_event(s, thread_idx, Head(to_dispatch)),
                      thread_idx, Tail(to_dispatch))

\* Scheduler::update_waiting_list, the loop from iterator position i on.
RECURSIVE waiting_from(_, _, _, _)
waiting_from(s, thread_idx, i, to_dispatch) ==
    IF s.pc # "idle" THEN s
    ELSE IF i > Len(s.waiting[thread_idx]) THEN dispatch_all(s, thread_idx, to_dispatch)
    ELSE LET h == s.waiting[thread_idx][i]
             events == s.heap[h].events
         IN IF events = <<>> \/ Head(events).kind # "Io" \/ Head(events).duration <= 0
            THEN [s EXCEPT !.pc = "abort"]
            ELSE IF Head(events).duration - 1 = 0
            THEN IF Tail(events) # <<>>
                 THEN waiting_from([s EXCEPT !.heap[h].events = Tail(events),
                                             !.waiting[thread_idx] = RemoveAt(@, i)],
                                   thread_idx, i, Append(to_dispatch, h))
                 ELSE waiting_from([s EXCEPT !.heap[h].events = Tail(events),
                                             !.heap[h].finish_time = waiting_finish_time(@, s.timer),
                                             !.finished = Append(@, h),
                                             !.waiting[thread_idx] = RemoveAt(@, i)],
                                   thread_idx, i, to_dispatch)
            ELSE waiting_from([s EXCEPT !.heap[h].events[1].duration = @ - 1],
                              thread_idx, i + 1, to_dispatch)

update_waiting_list(s, thread_idx) == waiting_from(s, thread_idx, 1, <<>>)

\* Scheduler::update_running
update_running_DropsFinished(s, thread_idx) ==
    IF s.pc # "idle" \/ s.running[thread_idx] = NULL THEN s
    ELSE LET h == s.running[thread_idx]
             events == s.heap[h].events
         IN IF events = <<>> \/ Head(events).kind # "Cpu" \/ Head(events).duration <= 0
            THEN [s EXCEPT !.pc = "abort"]
            ELSE IF Head(events).duration - 1 = 0
            THEN LET popped == [s EXCEPT !.heap[h].events = Tail(events)]
                     moved == IF Tail(events) # <<>>
                              THEN dispatch_process_by_first_event(popped, thread_idx, h)
                              ELSE popped
                 IN [moved EXCEPT !.running[thread_idx] = NULL]
            ELSE [s EXCEPT !.heap[h].events[1].duration = @ - 1]
update_running(s, thread_idx) ==
    IF s.pc # "idle" \/ s.running[thread_idx] = NULL THEN s
    ELSE LET h == s.running[thread_idx]
             events == s.heap[h].events
         IN IF events = <<>> \/ Head(events).kind # "Cpu" \/ Head(events).duration <= 0
            THEN [s EXCEPT !.pc = "abort"]
            ELSE IF Head(events).duration - 1 = 0
            THEN LET popped == [s EXCEPT !.heap[h].events = Tail(events)]
                     moved == IF Tail(events) # <<>>
                              THEN dispatch_process_by_first_event(popped, thread_idx, h)
                              ELSE [popped EXCEPT !.finished = Append(@, h)]
                 IN [moved EXCEPT !.running[thread_idx] = NULL]
            ELSE [s EXCEPT !.heap[h].events[1].duration = @ - 1]

\* ----------------------------------------------------------------- policies

\* FirstComeFirstServedPolicy::operator(), the loop from thread_idx on.
\* An empty ready queue returns from the whole call, not only from the core.
\* The loop runs up to threads_count: indexing a per-core array at
\* thread_idx >= MAX_THREADS is undefined behaviour.
RECURSIVE fcfs_from(_, _)
fcfs_from(s, thread_idx) ==
    IF thread_idx >= threads_count \/ s.pc # "idle" THEN s
    ELSE IF thread_idx >= MAX_THREADS THEN [s EXCEPT !.pc = "ub"]
    ELSE IF s.ready[thread_idx] = <<>> THEN s
    ELSE fcfs_from([s EXCEPT !.running[thread_idx] = Head(s.ready[thread_idx]),
                             !.ready[thread_idx] = Tail(@)],
                   thread_idx + 1)

FirstComeFirstServedPolicy(s) == fcfs_from(s, 0)

\* RoundRobinSplit without the split: the head event keeps its full duration.
RoundRobinSplit_NoSplit(events, quantum) == events

\* The split of the head event in RoundRobinPolicy::operator()
RoundRobinSplit(events, quantum) ==
    IF Head(events).duration > quantum
    THEN <<Event("Cpu", quantum, Head(events).resource_usage)>>
         \o <<[Head(events) EXCEPT !.duration = @ - quantum]>>
         \o Tail(events)
    ELSE events

\* RoundRobinPolicy::operator(), the loop from thread_idx on.
RECURSIVE rr_from(_, _, _)
rr_from(s, quantum, thread_idx) ==
    IF thread_idx >= threads_count \/ s.pc # "idle" THEN s
    ELSE IF thread_idx >= MAX_THREADS THEN [s EXCEPT !.pc = "ub"]
    ELSE IF s.ready[thread_idx] = <<>> THEN s
    ELSE LET h == Head(s.ready[thread_idx])
             events == s.heap[h].events
             moved == [s EXCEPT !.running[thread_idx] = h,
                                !.ready[thread_idx] = Tail(@)]
         IN IF events = <<>> \/ Head(events).kind # "Cpu"
            THEN [moved EXCEPT !.pc = "abort"]
            ELSE rr_from([moved EXCEPT !.heap[h].events = RoundRobinSplit(events, quantum)],
                         quantum, thread_idx + 1)

RoundRobinPolicy(s, quantum) == rr_from(s, quantum, 0)

\* NamedSchedulePolicy::operator()
apply_policy(s) ==
    IF schedule_policy.kind = "FirstComeFirstServed"
    THEN FirstComeFirstServedPolicy(s)
    ELSE RoundRobinPolicy(s, schedule_policy.quantum)

\* ------------------------------------------------------------ observations

\* Scheduler::complete on a scheduler value
complete_of(s) ==
    /\ \A t \in Cores : s.running[t] = NULL
    /\ \A t \in Cores : s.processes[t] = <<>>
    /\ \A t \in Cores : s.ready[t] = <<>>
    /\ \A t \in Cores : s.waiting[t] = <<>>

complete == complete_of(Sim)

\* Scheduler::average_waiting_time (integer division of std::size_t)
average_waiting_time ==
    IF finished = <<>> THEN 0
    ELSE SumSeq([i \in 1 .. Len(finished) |->
                    IF has_value(heap[finished[i]].start_time)
                    THEN value(heap[finished[i]].start_time) - heap[finished[i]].arrival
                    ELSE 0]) \div Len(finished)

\* Scheduler::average_turnaround_time
average_turnaround_time ==
    IF finished = <<>> THEN 0
    ELSE SumSeq([i \in 1 .. Len(finished) |->
                    IF has_value(heap[finished[i]].finish_time)
                    THEN value(heap[finished[i]].finish_time) - heap[finished[i]].arrival
                    ELSE 0]) \div Len(finished)

\* --------------------------------------------------------------------- step

\* The safety net after the policy call in step (lines 158-161)
take_ready_front(s, thread_idx) ==
    IF s.pc = "idle" /\ s.running[thread_idx] = NULL /\ Len(s.ready[thread_idx]) > 0
    THEN [s EXCEPT !.running[thread_idx] = Head(s.ready[thread_idx]),
                   !.ready[thread_idx] = Tail(@)]
    ELSE s

\* The observation update at the end of one iteration of step's loop
observe_FillOwnCore(s, thread_idx) ==
    IF s.pc # "idle" THEN s
    ELSE LET a == IF s.running[thread_idx] # NULL /\ s.heap[s.running[thread_idx]].events # <<>>
                  THEN [s EXCEPT !.cpu_usage[thread_idx] =
                                    Head(s.heap[s.running[thread_idx]].events).resource_usage]
                  ELSE s
             b == IF complete_of(a) THEN [a EXCEPT !.cpu_usage[thread_idx] = 0] ELSE a
         IN [b EXCEPT !.throughput = IF b.timer # 0 THEN <<Len(b.finished), b.timer>> ELSE <<0, 1>>,
                      !.previous_finished_count = Len(b.finished)]
observe(s, thread_idx) ==
    IF s.pc # "idle" THEN s
    ELSE LET a == IF s.running[thread_idx] # NULL /\ s.heap[s.running[thread_idx]].events # <<>>
                  THEN [s EXCEPT !.cpu_usage[thread_idx] =
                                    Head(s.heap[s.running[thread_idx]].events).resource_usage]
                  ELSE s
             b == IF complete_of(a) THEN [a EXCEPT !.cpu_usage = [t \in Cores |-> 0]] ELSE a
         IN [b EXCEPT !.throughput = IF b.timer # 0 THEN <<Len(b.finished), b.timer>> ELSE <<0, 1>>,
                      !.previous_finished_count = Len(b.finished)]

\* One iteration of the loop of Scheduler::step
step_thread(s, thread_idx) ==
    LET a == sidetrack_processes(s, thread_idx)
        b == update_waiting_list(a, thread_idx)
        c == update_running(b, thread_idx)
        d == IF c.pc = "idle" /\ c.running[thread_idx] = NULL THEN apply_policy(c) ELSE c
        e == take_ready_front(d, thread_idx)
    IN observe(e, thread_idx)

RECURSIVE step_from(_, _)
step_from(s, thread_idx) ==
    IF thread_idx >= threads_count \/ s.pc # "idle" THEN s
    ELSE IF thread_idx >= MAX_THREADS THEN [s EXCEPT !.pc = "ub"]
    ELSE step_from(step_thread(s, thread_idx), thread_idx + 1)

\* The scheduler after the loop of step and the increment of timer; when the
\* loop does not come back, timer is not incremented.
step_result(s) ==
    LET r == step_from(s, 0)
    IN IF r.pc = "idle" THEN [r EXCEPT !.timer = @ + 1] ELSE r

\* ---------------------------------------------------- Plotting::RingBuffer

\* The default argument of the constructor
DEFAULT_CAPACITY == 2000

\* RingBuffer::RingBuffer(capacity): data is an empty ImVector
RingBuffer(capacity) == [capacity |-> capacity, cursor |-> 0, data |-> <<>>]

\* ImVec2(x, y)
ImVec2(x, y) == <<x, y>>

\* RingBuffer::emplace_point.  data[cursor] is the element at index cursor,
\* counted from 0.
emplace_point(b, x, y) ==
    IF Len(b.data) < b.capacity
    THEN [b EXCEPT !.data = Append(@, ImVec2(x, y))]
    ELSE [b EXCEPT !.data[b.cursor + 1] = ImVec2(x, y),
                   !.cursor = (b.cursor + 1) % b.capacity]

\* RingBuffer::clear
clear(b) == [b EXCEPT !.data = <<>>]

\* RingBuffer::size, RingBuffer::offset and RingBuffer::operator[]
size(b) == Len(b.data)
offset(b) == b.cursor
at(b, index) == b.data[index + 1]

\* ------------------------------------------------------------------ actions

\* The scheduler as constructed with one of the policies, after `assigned`
\* assignments to threads_count that left it at `count`.
ConstructedScheduler(count, assigned) ==
    /\ heap = <<>>
    /\ running = [t \in Cores |-> NULL]
    /\ processes = [t \in Cores |-> <<>>]
    /\ waiting = [t \in Cores |-> <<>>]
    /\ ready = [t \in Cores |-> <<>>]
    /\ schedule_policy \in Policies
    /\ timer = 0
    /\ cpu_usage = [t \in Cores |-> 0]
    /\ threads_count = count
    /\ next_thread = 0
    /\ throughput = <<0, 1>>
    /\ previous_finished_count = 0
    /\ finished = <<>>
    /\ processes_backup = [t \in Cores |-> <<>>]
    /\ valid_backup = FALSE
    /\ pc = "idle"
    /\ emplaces = 0
    /\ restarts = 0
    /\ configs = assigned
    /\ reconfigured = FALSE
    /\ before_restart = [timer |-> 0, finished |-> <<>>]
    /\ limits = [max_processes |-> SIZE_MAX, max_events_per_process |-> SIZE_MAX,
                 max_single_event_duration |-> SIZE_MAX, max_arrival_time |-> SIZE_MAX]
    /\ interpreter = [called |-> FALSE, debug |-> FALSE, source |-> <<>>,
                      returned |-> FALSE, diagnostics |-> 0, outcomes |-> <<>>,
                      before |-> <<>>, spawned_pids |-> <<>>]

\* The plot buffer as constructed with `capacity`
ConstructedBuffer(capacity) ==
    /\ buffer = RingBuffer(capacity)
    /\ plotted = [points |-> <<>>, calls |-> 0, clears |-> 0]

\* The program after construction: the scheduler, and a plot buffer of the
\* default capacity
Constructed(count, assigned) ==
    /\ ConstructedScheduler(count, assigned)
    /\ ConstructedBuffer(DEFAULT_CAPACITY)

Init == Constructed(MAX_THREADS, 0)

\* The advance of next_thread in emplace_process
next_thread_after_AllCores(next, count) == (next + 1) % MAX_THREADS
next_thread_after(next, count) == (next + 1) % count

\* The part of the scheduler that emplace_process and the interpreter read
\* and write.
Placement ==
    [heap |-> heap, processes |-> processes, processes_backup |-> processes_backup,
     next_thread |-> next_thread, threads_count |-> threads_count,
     valid_backup |-> valid_backup, schedule_policy |-> schedule_policy, pc |-> pc]

\* Scheduler::emplace_process.  Indexing processes at next_thread >=
\* MAX_THREADS and the modulo by threads_count = 0 are undefined behaviour:
\* from "ub" on nothing is known about the program.
emplace_process(s, p) ==
    IF s.pc # "idle" THEN s
    ELSE IF s.next_thread >= MAX_THREADS THEN [s EXCEPT !.pc = "ub"]
    ELSE LET a == [s EXCEPT !.heap = Append(@, p),
                            !.processes[s.next_thread] = Append(@, Len(s.heap) + 1)]
             b == IF ~a.valid_backup
                  THEN [a EXCEPT !.processes_backup[s.next_thread] = Append(@, p)]
                  ELSE a
         IN IF b.threads_count = 0 THEN [b EXCEPT !.pc = "ub"]
            ELSE [b EXCEPT !.next_thread = next_thread_after(@, b.threads_count)]

\* A call of Scheduler::emplace_process by the driver
EmplaceCall(p) ==
    /\ pc = "idle"
    /\ LET r == emplace_process(Placement, p)
       IN /\ heap' = r.heap
          /\ processes' = r.processes
          /\ processes_backup' = r.processes_backup
          /\ next_thread' = r.next_thread
          /\ pc' = r.pc
    /\ emplaces' = emplaces + 1
    /\ reconfigured' = (reconfigured \/ valid_backup)
    /\ UNCHANGED <<running, waiting, ready, schedule_policy, timer, cpu_usage,
                   threads_count, throughput, previous_finished_count, finished,
                   valid_backup, restarts, configs, before_restart, limits,
                   interpreter, buffer, plotted>>

Emplace(p) ==
    /\ emplaces < MaxProcs
    /\ timer <= MaxOpTimer
    /\ EmplaceCall(p)

\* ------------------------------------------------------------- interpreter

\* The outcome of Lexer::lex and Parser::parse on a source text, and the
\* statements of the Ast
Source(lexes, parses, statements) ==
    [lexes |-> lexes, parses |-> parses, statements |-> statements]

\* An Expression of the Ast, with the children in place of their ids: the
\* token's lexeme (the digits of a Number), and the child expressions.
Expression(kind, lexeme, digits, elements) ==
    [kind |-> kind, lexeme |-> lexeme, digits |-> digits, elements |-> elements]

StringLiteral(str) == Expression("StringLiteral", str, <<>>, <<>>)
Number(digits) == Expression("Number", "", digits, <<>>)
Variable(name) == Expression("Variable", name, <<>>, <<>>)
List(elements) == Expression("List", "", <<>>, elements)
Tuple(elements) == Expression("Tuple", "", <<>>, elements)
Call(name, arguments) == Expression("Call", name, <<>>, arguments)
Constant(name, val) == Expression("Constant", name, <<>>, <<val>>)
RangeOf(start, end) == Expression("Range", "", <<>>, <<Number(start), Number(end)>>)
For(name, range, body) == Expression("For", name, <<>>, <<range>> \o body)

\* Interpreter::Value: std::monostate, std::string, std::size_t or ValueList
Value(type, str, num, values) == [type |-> type, str |-> str, num |-> num, values |-> values]
Monostate == Value("monostate", "", 0, <<>>)
StringValue(str) == Value("string", str, 0, <<>>)
NumberValue(num) == Value("number", "", num, <<>>)
ListValue(values) == Value("list", "", 0, values)

\* The number written by a sequence of decimal digits
RECURSIVE DecimalValue(_)
DecimalValue(digits) ==
    IF digits = <<>> THEN 0
    ELSE 10 * DecimalValue(SubSeq(digits, 1, Len(digits) - 1)) + digits[Len(digits)]

\* Util::parse_number: the value of the lexeme, std::nullopt when it does not
\* fit std::size_t
parse_number(digits) ==
    IF digits = <<>> \/ DecimalValue(digits) > SIZE_MAX THEN nullopt
    ELSE make_optional(DecimalValue(digits))

\* Simulations::try_policy_from_str followed by named_scheduler_from_policy:
\* RoundRobinPolicy {} has quantum 5
try_policy_from_str_Lenient(str) ==
    IF str \in {"RR", "RoundRobin"} THEN make_optional(RR(5)) ELSE make_optional(FCFS)
try_policy_from_str(str) ==
    IF str \in {"FCFS", "FIFO", "FirstComeFirstServed", "FirstInFirstOut"}
    THEN make_optional(FCFS)
    ELSE IF str \in {"RR", "RoundRobin"} THEN make_optional(RR(5))
    ELSE nullopt

\* Os::event_kind_try_from_str
event_kind_try_from_str(str) ==
    IF str \in {"Cpu", "Io"} THEN make_optional(str) ELSE nullopt

\* The result of evaluating an expression: std::optional<Value> and the
\* scheduler (with the interpreter's diagnostics and random numbers) after it
Evaluated(val, s) == [value |-> val, sim |-> s]

\* report_error and report_note print one line and yield std::nullopt
report(s) == [s EXCEPT !.diagnostics = @ + 1]

\* Util::random_float as a percentage: the next number of the generator
random_float(s) == s.random[(s.drawn % Len(s.random)) + 1]

RECURSIVE evaluate_expression(_, _)

\* list_as_events_deque, the loop from element i on with the events built so
\* far.  tuple[0] and tuple[1] are read without a check of the tuple's size.
RECURSIVE events_from(_, _, _, _)
events_from(list, i, s, events) ==
    IF i > Len(list) THEN Evaluated(make_optional(events), s)
    ELSE IF list[i].type # "list" THEN Evaluated(nullopt, report(s))
    ELSE LET tuple == list[i].values
         IN IF Len(tuple) < 1 THEN Evaluated(nullopt, [s EXCEPT !.pc = "ub"])
            ELSE IF tuple[1].type # "string" THEN Evaluated(nullopt, report(s))
            ELSE IF Len(tuple) < 2 THEN Evaluated(nullopt, [s EXCEPT !.pc = "ub"])
            ELSE IF tuple[2].type # "number" THEN Evaluated(nullopt, report(s))
            ELSE IF ~has_value(event_kind_try_from_str(tuple[1].str))
            THEN Evaluated(nullopt, report(s))
            ELSE events_from(list, i + 1, [s EXCEPT !.drawn = @ + 1],
                             Append(events,
                                    Event(value(event_kind_try_from_str(tuple[1].str)),
                                          tuple[2].num,
                                          IF random_float(s) < 1 THEN 1 ELSE random_float(s))))

list_as_events_deque(list, s) == events_from(list, 1, s, <<>>)

\* evaluate_expression(arguments[k]) in a builtin: arguments is indexed
\* without a check of its size
argument(arguments, k, s) ==
    IF k > Len(arguments) THEN Evaluated(nullopt, [s EXCEPT !.pc = "ub"])
    ELSE evaluate_expression(arguments[k], s)

\* The value of an argument converted by as_string_or / as_number_or /
\* as_value_list_or, whose callback reports `lines` lines
converted_Unchecked(evaluated, type, lines) == evaluated
converted(evaluated, type, lines) ==
    IF ~has_value(evaluated.value) THEN evaluated
    ELSE IF value(evaluated.value).type # type
    THEN Evaluated(nullopt, [evaluated.sim EXCEPT !.diagnostics = @ + lines])
    ELSE evaluated

\* spawn_process_builtin.  The arity check reports and goes on.
spawn_process_builtin(arguments, s) ==
    LET checked == IF Len(arguments) # 4 THEN report(s) ELSE s
        name == converted(argument(arguments, 1, checked), "string", 1)
        pid == converted(argument(arguments, 2, name.sim), "number", 1)
        arrival == converted(argument(arguments, 3, pid.sim), "number", 1)
        list == converted(argument(arguments, 4, arrival.sim), "list", 2)
        events == list_as_events_deque(value(list.value).values, list.sim)
    IN IF ~has_value(name.value) THEN name
       ELSE IF ~has_value(pid.value) THEN pid
       ELSE IF ~has_value(arrival.value) THEN arrival
       ELSE IF ~has_value(list.value) THEN list
       ELSE IF ~has_value(events.value) THEN events
       ELSE Evaluated(make_optional(Monostate),
                      emplace_process(events.sim,
                                      Process(value(name.value).str, value(pid.value).num,
                                              value(arrival.value).num, value(events.value))))

\* The random generator after n more numbers have been taken from it
skip(s, n) == [s EXCEPT !.drawn = @ + n]
advance(s) == skip(s, 1)

\* The next number of the generator: the numbers of s.random, then the same
\* numbers plus one, plus two, ..., so that every number comes up again and
\* again
random_number(s) ==
    (s.random[(s.drawn % Len(s.random)) + 1] + (s.drawn \div Len(s.random))) % (SIZE_MAX + 1)

\* Util::random_natural(lo, hi): a number of lo .. hi, both ends included
random_natural(lo, hi, s) == lo + (random_number(s) % (hi - lo + 1))

\* The pid loop of spawn_random_process_builtin:
\*   auto pid = random_natural(0, max_processes);
\*   while (contains(spawned_pids, pid)) { pid = random_natural(0, max_processes); }
\*   spawned_pids.push_back(pid);
\* When every number of 0 .. max_processes is in spawned_pids the loop is
\* never left.
RECURSIVE unused_pid_from(_)
unused_pid_from(s) ==
    IF s.pc # "idle" THEN s
    ELSE IF \A pid \in 0 .. s.limits.max_processes : pid \in Range(s.spawned_pids)
    THEN [s EXCEPT !.pc = "spin"]
    ELSE IF random_natural(0, s.limits.max_processes, s) \in Range(s.spawned_pids)
    THEN unused_pid_from(advance(s))
    ELSE [advance(s) EXCEPT !.spawned_pids =
                               Append(@, random_natural(0, s.limits.max_processes, s))]

\* process_random_event: kind, duration and resource_usage are the next
\* three numbers of the generator
process_random_event(s) ==
    Event(IF random_natural(0, 1, s) = 0 THEN "Cpu" ELSE "Io",
          random_natural(1, s.limits.max_single_event_duration, advance(s)),
          IF random_float(advance(advance(s))) < 1 THEN 1
          ELSE random_float(advance(advance(s))))

\* The loop of spawn_random_process_builtin that builds the events: the
\* i-th event takes three numbers after those of the events before it
random_events(events_count, s) ==
    [i \in 1 .. events_count |-> process_random_event(skip(s, 3 * (i - 1)))]

\* spawn_random_process_builtin after the pid loop: s.spawned_pids ends with
\* the pid; arrival, events_count and the events are drawn in this order
spawn_random_process_with_pid(s) ==
    IF s.pc # "idle" THEN Evaluated(nullopt, s)
    ELSE IF s.limits.max_events_per_process < 1 \/ s.limits.max_single_event_duration < 1
    THEN Evaluated(nullopt, [s EXCEPT !.pc = "ub"])
    ELSE Evaluated(make_optional(Monostate),
                   emplace_process(
                       skip(s, 2 + 3 * random_natural(1, s.limits.max_events_per_process,
                                                      advance(s))),
                       Process("Process", s.spawned_pids[Len(s.spawned_pids)],
                               random_natural(0, s.limits.max_arrival_time, s),
                               random_events(random_natural(1, s.limits.max_events_per_process,
                                                            advance(s)),
                                             skip(s, 2)))))

\* spawn_random_process_builtin.  The arity check reports and goes on.
spawn_random_process_builtin(arguments, s) ==
    spawn_random_process_with_pid(
        unused_pid_from(IF Len(arguments) # 0 THEN report(s) ELSE s))

\* Interpreter::is_builtin
is_builtin(name) == name \in {"spawn_process", "spawn_random_process"}

\* builtin_handler
builtin_handler(name, arguments, s) ==
    CASE name = "spawn_process" -> spawn_process_builtin(arguments, s)
      [] name = "spawn_random_process" -> spawn_random_process_builtin(arguments, s)

\* call_expression_visitor: a call of anything but a builtin fails an assert
call_expression_visitor(call, s) ==
    IF is_builtin(call.lexeme) THEN builtin_handler(call.lexeme, call.elements, s)
    ELSE Evaluated(nullopt, [s EXCEPT !.pc = "abort"])

\* list_visitor and tuple_visitor, the loop from element i on
RECURSIVE elements_from(_, _, _, _)
elements_from(elements, i, s, result) ==
    IF i > Len(elements) THEN Evaluated(make_optional(ListValue(result)), s)
    ELSE LET expr == evaluate_expression(elements[i], s)
         IN IF ~has_value(expr.value) THEN expr
            ELSE elements_from(elements, i + 1, expr.sim, Append(result, value(expr.value)))

\* The assignment of a parsed number to one of the scheduler's parameters
assigned(s, name, number) ==
    IF name = "threads_count" THEN [s EXCEPT !.threads_count = number]
    ELSE [s EXCEPT !.limits[name] = number]

\* constant_visitor
constant_visitor(constant, s) ==
    LET name == constant.lexeme
        expr == constant.elements[1]
    IN IF expr.kind = "Variable"
       THEN IF name = "schedule_policy"
            THEN IF has_value(try_policy_from_str(expr.lexeme))
                 THEN Evaluated(make_optional(Monostate),
                                [s EXCEPT !.schedule_policy = value(try_policy_from_str(expr.lexeme))])
                 ELSE Evaluated(nullopt, report(s))
            ELSE Evaluated(make_optional(Monostate), s)
       ELSE IF expr.kind = "Number"
       THEN IF name \in {"max_processes", "max_events_per_process",
                         "max_single_event_duration", "max_arrival_time", "threads_count"}
            THEN IF has_value(parse_number(expr.digits))
                 THEN Evaluated(make_optional(Monostate),
                                assigned(s, name, value(parse_number(expr.digits))))
                 ELSE Evaluated(nullopt, s)
            ELSE Evaluated(make_optional(Monostate), report(report(s)))
       ELSE Evaluated(make_optional(Monostate), s)

\* range_visitor
range_visitor(range, s) ==
    IF has_value(parse_number(range.elements[1].digits))
       /\ has_value(parse_number(range.elements[2].digits))
    THEN Evaluated(make_optional(ListValue(
                       <<NumberValue(value(parse_number(range.elements[1].digits))),
                         NumberValue(value(parse_number(range.elements[2].digits)))>>)), s)
    ELSE Evaluated(nullopt, s)

\* The body of a For, from expression j on: the results are discarded
RECURSIVE body_from(_, _, _)
body_from(body, j, s) ==
    IF j > Len(body) \/ s.pc # "idle" THEN s
    ELSE body_from(body, j + 1, evaluate_expression(body[j], s).sim)

\* The iterations i, i + 1, ..., end - 1 of a For
RECURSIVE iterations_from(_, _, _, _)
iterations_from(i, end, body, s) ==
    IF i >= end \/ s.pc # "idle" THEN s
    ELSE iterations_from(i + 1, end, body, body_from(body, 1, s))

\* evalute_for_expression
evalute_for_expression_Inclusive(four, s) ==
    LET range == four.elements[1]
        body == SubSeq(four.elements, 2, Len(four.elements))
    IN IF range.kind # "Range" THEN Evaluated(nullopt, s)
       ELSE IF ~has_value(parse_number(range.elements[1].digits))
               \/ ~has_value(parse_number(range.elements[2].digits))
       THEN Evaluated(nullopt, s)
       ELSE Evaluated(make_optional(Monostate),
                      iterations_from(value(parse_number(range.elements[1].digits)),
                                      value(parse_number(range.elements[2].digits)) + 1, body, s))
evalute_for_expression(four, s) ==
    LET range == four.elements[1]
        body == SubSeq(four.elements, 2, Len(four.elements))
    IN IF range.kind # "Range" THEN Evaluated(nullopt, s)
       ELSE IF ~has_value(parse_number(range.elements[1].digits))
               \/ ~has_value(parse_number(range.elements[2].digits))
       THEN Evaluated(nullopt, s)
       ELSE Evaluated(make_optional(Monostate),
                      iterations_from(value(parse_number(range.elements[1].digits)),
                                      value(parse_number(range.elements[2].digits)), body, s))

\* Interpreter::evaluate_expression
evaluate_expression(expression, s) ==
    IF s.pc # "idle" THEN Evaluated(nullopt, s)
    ELSE CASE expression.kind = "Call" -> call_expression_visitor(expression, s)
           [] expression.kind = "StringLiteral" ->
                 Evaluated(make_optional(StringValue(expression.lexeme)), s)
           [] expression.kind = "Number" ->
                 IF has_value(parse_number(expression.digits))
                 THEN Evaluated(make_optional(NumberValue(value(parse_number(expression.digits)))), s)
                 ELSE Evaluated(nullopt, s)
           [] expression.kind \in {"List", "Tuple"} -> elements_from(expression.elements, 1, s, <<>>)
           [] expression.kind = "Variable" ->
                 Evaluated(make_optional(StringValue(expression.lexeme)), s)
           [] expression.kind = "Constant" -> constant_visitor(expression, s)
           [] expression.kind = "Range" -> range_visitor(expression, s)
           [] expression.kind = "For" -> evalute_for_expression(expression, s)

\* Interpreter::evaluate_statement: an optional that always holds a value,
\* namely whether the statement's expression has one
evaluate_statement_Propagates(statement, s) ==
    LET expr == evaluate_expression(statement, s)
    IN [result |-> IF has_value(expr.value) THEN make_optional(TRUE) ELSE nullopt,
        sim |-> expr.sim]
evaluate_statement(statement, s) ==
    LET expr == evaluate_expression(statement, s)
    IN [result |-> make_optional(has_value(expr.value)), sim |-> expr.sim]

\* Interpreter::evaluate_ast, the loop from statement i on:
\*   failed |= TRY(evaluate_statement(statement))
\* outcomes records what each evaluate_statement yielded.
RECURSIVE evaluate_ast(_, _, _, _)
evaluate_ast(statements, i, failed, s) ==
    IF i > Len(statements) \/ s.pc # "idle" THEN [result |-> make_optional(failed), sim |-> s]
    ELSE LET r == evaluate_statement(statements[i], s)
         IN IF ~has_value(r.result) THEN [result |-> nullopt, sim |-> r.sim]
            ELSE evaluate_ast(statements, i + 1, failed \/ value(r.result),
                              [r.sim EXCEPT !.outcomes = Append(@, value(r.result))])

\* Interpreter::eval.  The check of the parser's result is compiled only
\* with DEBUG; without it *ast dereferences an empty optional, which is
\* undefined behaviour.
eval(source, debug, s) ==
    IF ~source.lexes THEN [returned |-> FALSE, sim |-> s]
    ELSE IF ~source.parses
    THEN IF debug THEN [returned |-> FALSE, sim |-> s]
         ELSE [returned |-> FALSE, sim |-> [s EXCEPT !.pc = "ub"]]
    ELSE LET r == evaluate_ast(source.statements, 1, FALSE, s)
         IN [returned |-> has_value(r.result), sim |-> r.sim]

\* The scheduler as the interpreter sees it, with the diagnostics printed so
\* far and the numbers the random generator is going to yield
Evaluation(random) ==
    Placement @@ [limits |-> limits, diagnostics |-> 0, random |-> random, drawn |-> 0,
                  outcomes |-> <<>>, spawned_pids |-> interpreter.spawned_pids]

\* A call of Interpreter::eval on a scheduler that has not stepped yet
Eval(source, debug, random) ==
    /\ pc = "idle"
    /\ ~interpreter.called
    /\ ~valid_backup
    /\ \E r \in {eval(source, debug, Evaluation(random))} :
          /\ heap' = r.sim.heap
          /\ processes' = r.sim.processes
          /\ processes_backup' = r.sim.processes_backup
          /\ next_thread' = r.sim.next_thread
          /\ threads_count' = r.sim.threads_count
          /\ schedule_policy' = r.sim.schedule_policy
          /\ limits' = r.sim.limits
          /\ pc' = r.sim.pc
          /\ emplaces' = emplaces + Len(r.sim.heap) - Len(heap)
          /\ interpreter' = [called |-> TRUE, debug |-> debug, source |-> source,
                             returned |-> r.returned, diagnostics |-> r.sim.diagnostics,
                             outcomes |-> r.sim.outcomes, before |-> Evaluation(random),
                             spawned_pids |-> r.sim.spawned_pids]
    /\ UNCHANGED <<running, waiting, ready, timer, cpu_usage, throughput,
                   previous_finished_count, finished, valid_backup, restarts, configs,
                   reconfigured, before_restart, buffer, plotted>>

\* Scheduler::step
Step ==
    /\ pc = "idle"
    /\ timer < MaxTimer
    /\ LET r == step_result(Sim)
       IN /\ heap' = r.heap
          /\ running' = r.running
          /\ processes' = r.processes
          /\ waiting' = r.waiting
          /\ ready' = r.ready
          /\ timer' = r.timer
          /\ cpu_usage' = r.cpu_usage
          /\ throughput' = r.throughput
          /\ previous_finished_count' = r.previous_finished_count
          /\ finished' = r.finished
          /\ pc' = r.pc
    /\ valid_backup' = TRUE
    /\ UNCHANGED <<schedule_policy, threads_count, next_thread, processes_backup,
                   emplaces, restarts, configs, reconfigured, before_restart,
                   limits, interpreter, buffer, plotted>>

\* The handles restart gives to the copies of processes_backup[idx]: the
\* copies are made core by core, in queue order.
RECURSIVE backup_before(_)
backup_before(idx) ==
    IF idx = 0 THEN 0 ELSE backup_before(idx - 1) + Len(processes_backup[idx - 1])

RECURSIVE backup_concat(_)
backup_concat(idx) ==
    IF idx >= MAX_THREADS THEN <<>> ELSE processes_backup[idx] \o backup_concat(idx + 1)

\* finished as the sequence of <<pid, finish_time>> of its processes
finished_summary ==
    [i \in 1 .. Len(finished) |-> <<heap[finished[i]].pid, heap[finished[i]].finish_time>>]

\* Scheduler::restart
RestartCall ==
    /\ pc = "idle"
    /\ valid_backup
    /\ timer' = 0
    /\ next_thread' = 0
    /\ throughput' = <<0, 1>>
    /\ previous_finished_count' = 0
    /\ finished' = <<>>
    /\ heap' = heap \o backup_concat(0)
    /\ processes' = [idx \in Cores |->
                        processes[idx] \o [k \in 1 .. Len(processes_backup[idx]) |->
                                              Len(heap) + backup_before(idx) + k]]
    /\ restarts' = restarts + 1
    /\ before_restart' = [timer |-> timer, finished |-> finished_summary]
    /\ UNCHANGED <<running, waiting, ready, schedule_policy, cpu_usage, threads_count,
                   processes_backup, valid_backup, pc, emplaces, configs,
                   reconfigured, limits, interpreter, buffer, plotted>>

Restart ==
    /\ restarts < MaxRestarts
    /\ RestartCall

\* Scheduler::switch_schedule_policy
SwitchPolicy(policy) ==
    /\ pc = "idle"
    /\ configs < MaxConfig
    /\ timer <= MaxOpTimer
    /\ policy # schedule_policy
    /\ schedule_policy' = policy
    /\ configs' = configs + 1
    /\ reconfigured' = (reconfigured \/ valid_backup)
    /\ UNCHANGED <<heap, running, processes, waiting, ready, timer, cpu_usage,
                   threads_count, next_thread, throughput, previous_finished_count,
                   finished, processes_backup, valid_backup, pc, emplaces, restarts,
                   before_restart, limits, interpreter, buffer, plotted>>

\* The interpreter's assignment `threads_count = n`
SetThreadsCount(n) ==
    /\ pc = "idle"
    /\ configs < MaxConfig
    /\ timer <= MaxOpTimer
    /\ n # threads_count
    /\ threads_count' = n
    /\ configs' = configs + 1
    /\ reconfigured' = (reconfigured \/ valid_backup)
    /\ UNCHANGED <<heap, running, processes, waiting, ready, schedule_policy, timer,
                   cpu_usage, next_thread, throughput, previous_finished_count,
                   finished, processes_backup, valid_backup, pc, emplaces, restarts,
                   before_restart, limits, interpreter, buffer, plotted>>

Next ==
    \/ \E p \in Workloads : Emplace(p)
    \/ (timer < MaxRunTimer /\ Step)
    \/ Restart
    \/ \E policy \in Policies : SwitchPolicy(policy)
    \/ \E n \in ThreadCounts : SetThreadsCount(n)

Spec == Init /\ [][Next]_vars

\* The driver of the one-core scenarios: the DSL has assigned threads_count = 1
\* (the state Init reaches by SetThreadsCount(1)), the workload is spawned
\* before the first step, and from then on the frame loop only steps.
InitOneCore == Constructed(1, 1)

NextOneCore ==
    \/ \E p \in Workloads : ~valid_backup /\ Emplace(p)
    \/ Step

SpecOneCore == InitOneCore /\ [][NextOneCore]_vars

\* The driver of whole runs on one or two cores: the DSL has assigned
\* threads_count, the workload is spawned before the first step, and the
\* frame loop steps and restarts.
InitRuns == \E n \in ThreadCounts : Constructed(n, 1)

NextRuns ==
    \/ \E p \in Workloads : ~valid_backup /\ Emplace(p)
    \/ Step
    \/ Restart

SpecRuns == InitRuns /\ [][NextRuns]_vars

\* The driver of the placement scenarios: on a scheduler as constructed, or
\* with threads_count assigned by the DSL, processes are only emplaced.
InitPlacement == Init \/ InitRuns

NextPlacement == \E p \in Workloads : emplaces < MaxPlaced /\ EmplaceCall(p)

SpecPlacement == InitPlacement /\ [][NextPlacement]_vars

\* ------------------------------------------------------------ DSL programs

Text(str) == StringLiteral(str)
EventTuple(kind, digits) == Tuple(<<Text(kind), Number(digits)>>)
EventsA == List(<<EventTuple("Cpu", <<3>>)>>)
EventsI == List(<<EventTuple("Io", <<1>>), EventTuple("Cpu", <<1>>), EventTuple("Io", <<1>>)>>)
Spawn(arguments) == Call("spawn_process", arguments)

\* spawn_process("A", 0, 0, [("Cpu", 3)]) and spawn_process("I", 3, 1, [...])
SpawnA == Spawn(<<Text("A"), Number(<<0>>), Number(<<0>>), EventsA>>)
SpawnI == Spawn(<<Text("I"), Number(<<3>>), Number(<<1>>), EventsI>>)
\* assignments
ThreadsCount2 == Constant("threads_count", Number(<<2>>))
ThreadsCount0 == Constant("threads_count", Number(<<0>>))
ThreadsCount10 == Constant("threads_count", Number(<<1, 0>>))
ThreadsCountHuge == Constant("threads_count", Number(<<1, 0, 0>>))
PolicyNamed(name) == Constant("schedule_policy", Variable(name))
PolicyRR == PolicyNamed("RR")
PolicyUnknown == PolicyNamed("LIFO")
PolicyFCFS == PolicyNamed("FCFS")
PolicyFIFO == PolicyNamed("FIFO")
PolicyFirstComeFirstServed == PolicyNamed("FirstComeFirstServed")
PolicyFirstInFirstOut == PolicyNamed("FirstInFirstOut")
PolicyRoundRobin == PolicyNamed("RoundRobin")
PolicyLowerFcfs == PolicyNamed("fcfs")
PolicyLowerRr == PolicyNamed("rr")
MaxProcesses5 == Constant("max_processes", Number(<<5>>))
UnknownKey == Constant("quantum", Number(<<3>>))
\* spawn_process with three and with five arguments
SpawnThree == Spawn(<<Text("A"), Number(<<0>>), Number(<<0>>)>>)
SpawnFive == Spawn(<<Text("A"), Number(<<0>>), Number(<<0>>), EventsA, Number(<<7>>)>>)
\* spawn_process with one argument of the wrong type
SpawnNameNumber == Spawn(<<Number(<<0>>), Number(<<0>>), Number(<<0>>), EventsA>>)
SpawnPidText == Spawn(<<Text("A"), Text("0"), Number(<<0>>), EventsA>>)
SpawnArrivalText == Spawn(<<Text("A"), Number(<<0>>), Text("0"), EventsA>>)
SpawnEventsNumber == Spawn(<<Text("A"), Number(<<0>>), Number(<<0>>), Number(<<3>>)>>)
SpawnEventNumber == Spawn(<<Text("A"), Number(<<0>>), Number(<<0>>), List(<<Number(<<3>>)>>)>>)
SpawnKindLower ==
    Spawn(<<Text("A"), Number(<<0>>), Number(<<0>>),
            List(<<EventTuple("Cpu", <<3>>), EventTuple("cpu", <<3>>)>>)>>)
\* spawn_process("Z", 4, 0, [("Cpu", 0)])
SpawnZero == Spawn(<<Text("Z"), Number(<<4>>), Number(<<0>>), List(<<EventTuple("Cpu", <<0>>)>>)>>)
\* [spawn_process("A", 0, 0, [("Cpu", 3)]), spawn_process("A", "0", 0, [("Cpu", 3)])]
SpawnThenMismatch == List(<<SpawnA, SpawnPidText>>)
\* for i in 0..2 { spawn_process("A", 0, 0, [("Cpu", 3)]) }
ForTwice == For("i", RangeOf(<<0>>, <<2>>), <<SpawnA>>)
\* for i in 2..2 { spawn_process("A", ...) } and for i in 3..1 { spawn_process("A", ...) }
ForEmpty == For("i", RangeOf(<<2>>, <<2>>), <<SpawnA>>)
ForBackwards == For("i", RangeOf(<<3>>, <<1>>), <<SpawnA>>)
\* for i in 1..3 { spawn_process("A", ...) spawn_process("I", ...) }
ForTwoBodies == For("i", RangeOf(<<1>>, <<3>>), <<SpawnA, SpawnI>>)
\* for i in 0..2 { spawn_process("A", "0", ...) spawn_process("I", ...) }
ForFailing == For("i", RangeOf(<<0>>, <<2>>), <<SpawnPidText, SpawnI>>)

\* The statements DSL programs are made of
Statements ==
    <<SpawnA, SpawnI, ThreadsCount2, ThreadsCount0, ThreadsCount10, ThreadsCountHuge,
      PolicyRR, PolicyUnknown, MaxProcesses5, UnknownKey, SpawnThree, SpawnFive,
      SpawnNameNumber, SpawnPidText, SpawnArrivalText, SpawnEventsNumber,
      SpawnEventNumber, SpawnKindLower, SpawnThenMismatch, ForTwice,
      PolicyFCFS, PolicyFIFO, PolicyFirstComeFirstServed, PolicyFirstInFirstOut,
      PolicyRoundRobin, PolicyLowerFcfs, PolicyLowerRr,
      ForEmpty, ForBackwards, ForTwoBodies, ForFailing, SpawnZero>>

\* The programs of at most MaxStatements statements, as indices into Statements
Programs == UNION {[1 .. n -> 1 .. Len(Statements)] : n \in 0 .. MaxStatements}
Program(indices) == [i \in 1 .. Len(indices) |-> Statements[indices[i]]]

\* The numbers Util::random_float yields during one evaluation, repeated
RandomStreams == <<<<50>>, <<20, 30, 20>>, <<0, 70>>>>

\* The driver of the DSL scenarios: a source text is evaluated on the
\* scheduler as constructed, in a build with or without DEBUG; then the frame
\* loop steps.
InitDsl == Init

NextDsl ==
    \/ \E indices \in Programs, debug \in BOOLEAN, k \in 1 .. Len(RandomStreams) :
          Eval(Source(TRUE, TRUE, Program(indices)), debug, RandomStreams[k])
    \/ \E lexes \in BOOLEAN, debug \in BOOLEAN :
          Eval(Source(lexes, FALSE, <<>>), debug, RandomStreams[1])
    \/ (interpreter.called /\ timer < MaxDslTimer /\ Step)

SpecDsl == InitDsl /\ [][NextDsl]_vars

\* spawn_random_process() and a loop of three of them
SpawnRandom == Call("spawn_random_process", <<>>)
ForRandom == For("i", RangeOf(<<0>>, <<3>>), <<SpawnRandom>>)
\* the bounds of the random workload
MaxProcesses1 == Constant("max_processes", Number(<<1>>))
MaxEvents2 == Constant("max_events_per_process", Number(<<2>>))
MaxDuration2 == Constant("max_single_event_duration", Number(<<2>>))

\* The statements the programs that spawn random processes are made of
RandomStatements ==
    <<SpawnRandom, ForRandom, MaxProcesses1, MaxProcesses5, MaxEvents2, MaxDuration2>>

\* The programs of at most MaxRandomStatements statements, as indices into
\* RandomStatements
RandomPrograms ==
    UNION {[1 .. n -> 1 .. Len(RandomStatements)] : n \in 0 .. MaxRandomStatements}
RandomProgram(indices) == [i \in 1 .. Len(indices) |-> RandomStatements[indices[i]]]

\* The first numbers the random generator yields during one evaluation
NaturalStreams == <<<<5, 4, 0, 1, 1>>, <<0, 70>>>>

\* The driver of the random workloads: a program that sets bounds and spawns
\* random processes is evaluated on the scheduler as constructed; then the
\* frame loop steps.
InitRandom == Init

NextRandom ==
    \/ \E indices \in RandomPrograms, debug \in BOOLEAN, k \in 1 .. Len(NaturalStreams) :
          Eval(Source(TRUE, TRUE, RandomProgram(indices)), debug, NaturalStreams[k])
    \/ (interpreter.called /\ timer < MaxDslTimer /\ Step)

SpecRandom == InitRandom /\ [][NextRandom]_vars

\* The driver of the workload comparisons: the DSL has assigned threads_count,
\* up to MaxLaneProcs processes are spawned before the first step, and from
\* then on the frame loop only steps.
InitLanes == InitRuns

NextLanes ==
    \/ \E p \in Workloads : ~valid_backup /\ emplaces < MaxLaneProcs /\ EmplaceCall(p)
    \/ Step

SpecLanes == InitLanes /\ [][NextLanes]_vars

\* The driver of the runs that observe the phases of step: well-formed
\* processes with distinct pids, spawned before the first step on one or two
\* cores; the frame loop only steps.
PhaseWorkloads == {ProcA, ProcX, ProcY, ProcI, ProcW}

InitPhases == InitRuns

NextPhases ==
    \/ \E p \in PhaseWorkloads : ~valid_backup /\ emplaces < MaxPhaseProcs /\ EmplaceCall(p)
    \/ Step

SpecPhases == InitPhases /\ [][NextPhases]_vars

\* The driver of the runs that observe the backup: processes are spawned
\* before and after the first step, the policy is switched, and the frame loop
\* steps and restarts, twice in a row as well.
InitBackup == InitRuns

NextBackup ==
    \/ \E p \in Workloads : Emplace(p)
    \/ (timer < MaxBackupTimer /\ Step)
    \/ (restarts < MaxBackupRestarts /\ RestartCall)
    \/ \E policy \in Policies : SwitchPolicy(policy)

SpecBackup == InitBackup /\ [][NextBackup]_vars

\* The scheduler's variables, which the operations of the plot buffer leave
\* alone
scheduler_vars ==
    <<heap, running, processes, waiting, ready, schedule_policy, timer,
      cpu_usage, threads_count, next_thread, throughput,
      previous_finished_count, finished, processes_backup, valid_backup,
      pc, emplaces, restarts, configs, reconfigured, before_restart,
      limits, interpreter>>

\* A call of RingBuffer::emplace_point: x is the number of the sample, y its
\* value
EmplacePoint(y) ==
    /\ plotted.calls < MaxPoints
    /\ buffer' = emplace_point(buffer, plotted.calls, y)
    /\ plotted' = [plotted EXCEPT !.points = Append(@, ImVec2(plotted.calls, y)),
                                  !.calls = @ + 1]
    /\ UNCHANGED scheduler_vars

\* A call of RingBuffer::clear
Clear ==
    /\ plotted.clears < MaxClears
    /\ buffer' = clear(buffer)
    /\ plotted' = [plotted EXCEPT !.points = <<>>, !.clears = @ + 1]
    /\ UNCHANGED scheduler_vars

\* The driver of a plot buffer: constructed with a capacity of 1 to
\* MaxCapacity, then points are emplaced and the buffer is cleared in any
\* order.
InitPlot ==
    /\ ConstructedScheduler(MAX_THREADS, 0)
    /\ \E capacity \in 1 .. MaxCapacity : ConstructedBuffer(capacity)

NextPlot ==
    \/ \E y \in {0, 1} : EmplacePoint(y)
    \/ Clear

SpecPlot == InitPlot /\ [][NextPlot]_vars

TypeOK ==
    /\ pc \in {"idle", "spin", "abort", "ub"}
    /\ timer \in 0 .. MaxTimer
    /\ threads_count \in 1 .. MAX_THREADS

\* ------------------------------------------------------------------ claims

Handles == 1 .. Len(heap)

\* How many times handle h occurs in sequence q
Occurrences(q, h) == Cardinality({i \in 1 .. Len(q) : q[i] = h})

\* The number of places that hold process h
Holders(h) ==
    SumSeq([k \in 1 .. MAX_THREADS |->
               Occurrences(processes[k - 1], h) + Occurrences(ready[k - 1], h)
               + Occurrences(waiting[k - 1], h)
               + (IF running[k - 1] = h THEN 1 ELSE 0)])
    + Occurrences(finished, h)

\* A transition is a call of step: only step advances timer or leaves "idle".
IsStep == timer' = timer + 1 \/ pc' # pc

\* C1: between operations, without restart (and with threads_count and the
\* policy as they were at the first step), every emplaced process is held by
\* exactly one of pending[t], ready[t], waiting[t], running[t] and finished.
C1_ExactlyOneHolder ==
    (pc = "idle" /\ restarts = 0 /\ ~reconfigured) => \A h \in Handles : Holders(h) = 1

\* C2: under FCFS (threads_count and the policy as they were at the first
\* step) a process in running[t] whose head Cpu event will not reach zero in
\* the next tick is still in running[t] after any operation.
C2_NoPreemption ==
    [][\A t \in Cores :
          (schedule_policy = FCFS /\ ~reconfigured /\ ~reconfigured' /\ running[t] # NULL
           /\ heap[running[t]].events # <<>>
           /\ Head(heap[running[t]].events).duration > 1)
          => running'[t] = running[t]]_vars

\* Core t holds two pending processes of the same pid that both arrive now,
\* the first of which is dispatched: <<i, j>> are their positions.
Twins(t) ==
    {ij \in (1 .. Len(processes[t])) \X (1 .. Len(processes[t])) :
        /\ ij[1] < ij[2]
        /\ heap[processes[t][ij[1]]].pid = heap[processes[t][ij[2]]].pid
        /\ heap[processes[t][ij[1]]].arrival = timer
        /\ heap[processes[t][ij[2]]].arrival = timer
        /\ heap[processes[t][ij[1]]].events # <<>>}

\* C3: a step that reaches a pending process whose pid is live on its core
\* (here: the pid of a process dispatched just before it in the same step)
\* returns; the process is then in no queue and not in finished, while the
\* first process of that pid is still held.
C3_DuplicateDropped ==
    [][\A t \in Cores :
          (IsStep /\ t < threads_count /\ Twins(t) # {})
          => /\ pc' = "idle"
             /\ timer' = timer + 1
             /\ \A ij \in Twins(t) : /\ Holders(processes[t][ij[2]])' = 0
                                      /\ Holders(processes[t][ij[1]])' = 1]_vars

\* The pending processes of core t that arrive now with an empty event list
EmptyDue(t) ==
    {i \in 1 .. Len(processes[t]) :
        heap[processes[t][i]].arrival = timer /\ heap[processes[t][i]].events = <<>>}

\* C4: a step that reaches a pending process with an empty event list
\* returns: the process has left pending[t] and timer is one more.
C4_EmptyEventsStepReturns ==
    [][\A t \in Cores :
          (IsStep /\ t < threads_count /\ EmptyDue(t) # {})
          => /\ pc' = "idle"
             /\ timer' = timer + 1
             /\ \A i \in EmptyDue(t) : Occurrences(processes'[t], processes[t][i]) = 0]_vars

\* A single core, the processes of `workload` emplaced in that order before
\* the first step, nothing else emplaced, no restart, and neither the policy
\* nor threads_count changed after the first step.
Scenario(policy, workload) ==
    /\ pc = "idle"
    /\ threads_count = 1
    /\ schedule_policy = policy
    /\ ~reconfigured
    /\ restarts = 0
    /\ processes_backup[0] = workload
    /\ Len(heap) = Len(workload)

\* C5: the lone process A = (pid 0, arrival 0, [Cpu 3]) under FCFS on one
\* core: after 3 steps the simulation is complete, finished has length 1,
\* the average turnaround is 3 and the average waiting time is 0; a lone
\* process with one Cpu event of duration d is finished after d steps.
C5_SingleCpuProcess ==
    /\ (Scenario(FCFS, <<ProcA>>) /\ timer = 3)
       => /\ complete
          /\ Len(finished) = 1
          /\ average_turnaround_time = 3
          /\ average_waiting_time = 0
    /\ \A w \in {ProcA, ProcX, ProcY} :
          (Scenario(FCFS, <<w>>) /\ timer = w.events[1].duration)
          => (finished = <<1>> /\ average_turnaround_time = w.events[1].duration)

\* C6: the lone process B = (pid 1, arrival 0, [Cpu 2, Io 2, Cpu 1]) on one
\* core is finished after 5 steps with start_time 0 and finish_time 5.
C6_MixedProcess ==
    \A policy \in Policies :
       (Scenario(policy, <<ProcB>>) /\ timer = 5)
       => /\ finished = <<1>>
          /\ heap[1].start_time = make_optional(0)
          /\ heap[1].finish_time = make_optional(5)

\* The process in running[0] after the k-th step of the Round-Robin scenario:
\* X (handle 1) for two ticks, Y (handle 2) for two, X for two, Y for one,
\* X for one.
RoundRobinGrant(k) ==
    CASE k \in {1, 2, 5, 6, 8} -> 1
      [] k \in {3, 4, 7} -> 2
      [] OTHER -> NULL

\* C7 as stated: the grants are X(2), Y(2), X(2), Y(1), X(1), both processes
\* finish, and the simulation is complete once 8 steps have been taken.
C7_CompleteAfterEightSteps ==
    (Scenario(RR(2), <<ProcX, ProcY>>) /\ valid_backup)
    => /\ running[0] = RoundRobinGrant(timer)
       /\ (timer >= 8 => (complete /\ Range(finished) = {1, 2}))

\* C7 amended: the grants are X(2), Y(2), X(2), Y(1), X(1), both processes
\* finish, and the simulation is complete exactly from the 9th step on (the
\* step at tick 0 dispatches and serves nothing).
C7_RoundRobinOrder ==
    (Scenario(RR(2), <<ProcX, ProcY>>) /\ valid_backup)
    => /\ running[0] = RoundRobinGrant(timer)
       /\ (complete <=> timer >= 9)
       /\ (timer >= 9 => finished = <<2, 1>>)

C7_Witness ==
    Scenario(RR(2), <<ProcX, ProcY>>) /\ timer = 9 /\ complete /\ finished = <<2, 1>>

\* C8: under Round-Robin with quantum q (threads_count and the policy as they
\* were at the first step), whenever an operation puts a process
\* into running[t], its head Cpu event lasts at most q ticks, so that it is
\* served at most q consecutive ticks before it finishes the event or is
\* re-queued.
C8_QuantumBound ==
    [][\A t \in Cores :
          (schedule_policy.kind = "RoundRobin" /\ ~reconfigured /\ ~reconfigured'
           /\ running'[t] # NULL /\ running'[t] # running[t])
          => /\ heap'[running'[t]].events # <<>>
             /\ Head(heap'[running'[t]].events).duration <= schedule_policy.quantum]_vars

\* C9: once start_time holds a value, no operation changes or clears it.
C9_StartTimeSetOnce ==
    [][\A h \in Handles :
          has_value(heap[h].start_time) => heap'[h].start_time = heap[h].start_time]_vars

\* C10: a process that enters finished has finish_time set to the value of
\* timer during that step, and every process in finished has finish_time set.
C10_FinishTimeSet ==
    /\ [][\A h \in Handles :
             (Occurrences(finished, h) = 0 /\ Occurrences(finished', h) > 0)
             => heap'[h].finish_time = make_optional(timer)]_vars
    /\ [](\A i \in 1 .. Len(finished) : has_value(heap[finished[i]].finish_time))

\* The service time of a process as emplaced: the ticks of its Cpu events
ServiceTime(p) ==
    SumSeq([i \in 1 .. Len(p.events) |->
               IF p.events[i].kind = "Cpu" THEN p.events[i].duration ELSE 0])

\* The service times of the processes emplaced on core 0 before the first
\* step that arrive earlier than tick `arrival`
EarlierService(arrival) ==
    SumSeq([i \in 1 .. Len(processes_backup[0]) |->
               IF processes_backup[0][i].arrival < arrival
               THEN ServiceTime(processes_backup[0][i]) ELSE 0])

IsRestart == restarts' = restarts + 1

\* How many elements of the sequence q of Process values equal p
Copies(q, p) == Cardinality({i \in 1 .. Len(q) : q[i] = p})

\* C12: restart after emplace calls followed by steps leaves in every
\* pending[t] exactly the multiset of processes emplaced on core t (with
\* their event lists as emplaced), timer = 0, throughput = 0 and finished
\* empty.
C12_RestartRestoresPending ==
    [][(IsRestart /\ ~reconfigured)
       => /\ \A t \in Cores : \A p \in Workloads :
                Copies([i \in 1 .. Len(processes'[t]) |-> heap'[processes'[t][i]]], p)
                = Copies(processes_backup[t], p)
          /\ timer' = 0
          /\ throughput'[1] = 0
          /\ finished' = <<>>]_vars

\* C13: with the workload emplaced before the first step, n >= 1 steps, then
\* restart, then n steps again: every step after the restart returns, and
\* when timer is back at n, finished holds the same pids and finish_times as
\* it did after the first n steps.
C13_RestartDeterminism ==
    /\ []((restarts >= 1 /\ pc = "idle" /\ ~reconfigured
           /\ timer = before_restart.timer)
          => finished_summary = before_restart.finished)
    /\ [][(restarts >= 1 /\ ~reconfigured /\ IsStep) => pc' = "idle"]_vars

\* C14: a step taken when complete() holds leaves finished, cpu_usage and
\* the pending, ready, waiting and running queues of every core unchanged.
C14_CompleteStepFrame ==
    [][(IsStep /\ complete)
       => /\ finished' = finished
          /\ cpu_usage' = cpu_usage
          /\ processes' = processes
          /\ ready' = ready
          /\ waiting' = waiting
          /\ running' = running
          /\ pc' = "idle"
          /\ timer' = timer + 1]_vars

\* Two processes have run on two cores and are finished, and at least one
\* more step has been taken since the last of them finished.
C14_Witness ==
    /\ complete
    /\ restarts = 0
    /\ threads_count = 2
    /\ Len(heap) = 2
    /\ Len(finished) = 2
    /\ throughput = <<2, timer - 1>>
    /\ has_value(heap[finished[2]].finish_time)
    /\ timer > value(heap[finished[2]].finish_time) + 1

\* The handles of the processes whose emplace_process call was the k-th with
\* k mod threads_count = t (k = 0, 1, ...), in call order
PlacedOn(t) ==
    LET OnCore(h) == (h - 1) % threads_count = t
    IN SelectSeq([h \in 1 .. Len(heap) |-> h], OnCore)

\* C15: from next_thread = 0 and with threads_count = n unchanged, the k-th
\* emplace_process call has appended its process to pending[k mod n] and to
\* no other queue; with n = 2 and spawns A, B, C, D, pending[0] = [A, C] and
\* pending[1] = [B, D].
C15_RoundRobinPlacement ==
    /\ \A t \in Cores : processes[t] = PlacedOn(t)
    /\ next_thread = Len(heap) % threads_count
    /\ (threads_count = 2 /\ heap = <<ProcA, ProcB, ProcX, ProcY>>)
       => (processes[0] = <<1, 3>> /\ processes[1] = <<2, 4>>)

C15_Witness ==
    /\ threads_count = 2
    /\ heap = <<ProcA, ProcB, ProcX, ProcY>>
    /\ processes[0] = <<1, 3>>
    /\ processes[1] = <<2, 4>>

\* C16: in every reachable state 1 <= threads_count <= MAX_THREADS, also
\* after the DSL has assigned 0 or a number above 9 to threads_count.
C16_ThreadsCountClamped == threads_count \in 1 .. MAX_THREADS

\* A transition is a call of Interpreter::eval
IsEval == ~interpreter.called /\ interpreter'.called

\* A call of spawn_process with a number of arguments other than 4
WrongArity(expression) ==
    /\ expression.kind = "Call"
    /\ expression.lexeme = "spawn_process"
    /\ Len(expression.elements) # 4

\* C17: a program that is one call of spawn_process with fewer or more than
\* 4 arguments reports a diagnostic and the call fails; no process is
\* emplaced and the pending queues, the backup and next_thread are unchanged.
C17_SpawnArityStrict ==
    [][(IsEval /\ Len(interpreter'.source.statements) = 1
        /\ WrongArity(interpreter'.source.statements[1]))
       => /\ pc' = "idle"
          /\ interpreter'.diagnostics >= 1
          /\ interpreter'.outcomes = <<FALSE>>
          /\ heap' = heap
          /\ processes' = processes
          /\ processes_backup' = processes_backup
          /\ next_thread' = next_thread]_vars

\* An events argument that is not a list of (kind, duration) tuples with
\* kind "Cpu" or "Io"
BadEvents(expression) ==
    \/ expression.kind # "List"
    \/ \E i \in 1 .. Len(expression.elements) :
          \/ expression.elements[i].kind # "Tuple"
          \/ /\ expression.elements[i].kind = "Tuple"
             /\ expression.elements[i].elements[1].lexeme \notin {"Cpu", "Io"}

\* A call of spawn_process with 4 arguments, one of which has the wrong type
\* or an unknown event kind
IllTyped(expression) ==
    /\ expression.kind = "Call"
    /\ expression.lexeme = "spawn_process"
    /\ Len(expression.elements) = 4
    /\ \/ expression.elements[1].kind # "StringLiteral"
       \/ expression.elements[2].kind # "Number"
       \/ expression.elements[3].kind # "Number"
       \/ BadEvents(expression.elements[4])

Drawn(process) ==
    [process EXCEPT !.events = [k \in 1 .. Len(process.events) |->
                                  [process.events[k] EXCEPT !.resource_usage = 0]]]

\* What a program has done to the scheduler, the random resource_usage of
\* the emplaced events aside
Effect(s) ==
    [heap |-> [h \in 1 .. Len(s.heap) |-> Drawn(s.heap[h])],
     processes |-> s.processes,
     processes_backup |-> [t \in Cores |->
                              [k \in 1 .. Len(s.processes_backup[t]) |->
                                  Drawn(s.processes_backup[t][k])]],
     next_thread |-> s.next_thread,
     threads_count |-> s.threads_count,
     schedule_policy |-> s.schedule_policy,
     limits |-> s.limits]

\* The effect of the program of the last eval without its i-th statement
EffectWithout(i) ==
    Effect(evaluate_ast(RemoveAt(interpreter.source.statements, i), 1, FALSE,
                        interpreter.before).sim)

\* The last eval has evaluated a program that lexed and parsed, and has come
\* back; no step has been taken since.
Evaluated_Program ==
    /\ interpreter.called
    /\ interpreter.source.parses
    /\ pc = "idle"
    /\ ~valid_backup

RECURSIVE ContainsCall(_)
ContainsCall(expression) ==
    \/ expression.kind = "Call"
    \/ \E i \in 1 .. Len(expression.elements) : ContainsCall(expression.elements[i])

\* The expression has a call below its root
NestedCalls(expression) ==
    \E i \in 1 .. Len(expression.elements) : ContainsCall(expression.elements[i])

C20_LexParseFailure ==
    [][(IsEval /\ ~(interpreter'.source.lexes /\ interpreter'.source.parses))
       => /\ pc' = "idle"
          /\ ~interpreter'.returned
          /\ interpreter'.outcomes = <<>>
          /\ heap' = heap
          /\ processes' = processes
          /\ processes_backup' = processes_backup
          /\ next_thread' = next_thread
          /\ threads_count' = threads_count
          /\ schedule_policy' = schedule_policy
          /\ limits' = limits]_vars

\* An assignment `schedule_policy = X` of a name X
PolicyAssignment(expression) ==
    /\ expression.kind = "Constant"
    /\ expression.lexeme = "schedule_policy"
    /\ expression.elements[1].kind = "Variable"

\* C21: a program that is one assignment `schedule_policy = X` switches the
\* scheduler to FCFS iff X is FCFS, FIFO, FirstComeFirstServed or
\* FirstInFirstOut, to Round-Robin iff X is RR or RoundRobin; for any other
\* name (also one that differs in case only) the statement fails with a
\* diagnostic and the policy is as it was.
C21_PolicyNames ==
    [][(IsEval /\ Len(interpreter'.source.statements) = 1
        /\ PolicyAssignment(interpreter'.source.statements[1]))
       => LET X == interpreter'.source.statements[1].elements[1].lexeme
          IN /\ pc' = "idle"
             /\ X \in {"FCFS", "FIFO", "FirstComeFirstServed", "FirstInFirstOut"}
                => (schedule_policy' = FCFS /\ interpreter'.outcomes = <<TRUE>>)
             /\ X \in {"RR", "RoundRobin"}
                => (schedule_policy'.kind = "RoundRobin" /\ interpreter'.outcomes = <<TRUE>>)
             /\ X \notin {"FCFS", "FIFO", "FirstComeFirstServed", "FirstInFirstOut",
                           "RR", "RoundRobin"}
                => /\ schedule_policy' = schedule_policy
                   /\ interpreter'.outcomes = <<FALSE>>
                   /\ interpreter'.diagnostics >= 1]_vars

\* `schedule_policy = fcfs` on a Round-Robin scheduler has failed and the
\* scheduler is still Round-Robin.
C21_Witness ==
    /\ interpreter.called
    /\ interpreter.source.statements = <<PolicyLowerFcfs>>
    /\ interpreter.outcomes = <<FALSE>>
    /\ interpreter.before.schedule_policy = RR(2)
    /\ schedule_policy = RR(2)

\* A transition is a call of step by the frame loop: no other operation of
\* the driver is part of it
IsStepCall ==
    /\ IsStep
    /\ emplaces' = emplaces
    /\ restarts' = restarts
    /\ configs' = configs
    /\ interpreter' = interpreter

\* C22: every call of step advances timer by exactly one, whatever
\* threads_count is and whatever is dispatched, served or finished in the
\* tick; and no call of step decreases timer.
C22_StepAdvancesTimer ==
    [][IsStepCall => (timer' = timer + 1 /\ pc' = "idle")]_vars

\* Process h, not yet finished, has a Cpu event as its last event
EndsOnCpu(h) ==
    /\ heap[h].events # <<>>
    /\ heap[h].events[Len(heap[h].events)].kind = "Cpu"

\* C23: average_turnaround_time() is 0 when finished is empty, and when a
\* step makes a process that ends on a Cpu event the only finished process,
\* average_turnaround_time() is the number of ticks from its arrival to its
\* completion (counted to the tick of that step, or to the tick after it).
C23_AverageTurnaround ==
    /\ [](finished = <<>> => average_turnaround_time = 0)
    /\ [][\A h \in Handles :
             (IsStepCall /\ pc' = "idle" /\ finished = <<>> /\ finished' = <<h>>
              /\ EndsOnCpu(h))
             => average_turnaround_time' \in {timer - heap[h].arrival,
                                              timer + 1 - heap[h].arrival}]_vars

\* A For over a range whose body is made of 4-argument spawn_process calls
ForOfSpawns(expression) ==
    /\ expression.kind = "For"
    /\ expression.elements[1].kind = "Range"
    /\ Len(expression.elements) >= 2
    /\ \A j \in 2 .. Len(expression.elements) :
          /\ expression.elements[j].kind = "Call"
          /\ expression.elements[j].lexeme = "spawn_process"
          /\ Len(expression.elements[j].elements) = 4

\* The sequence q repeated n times
RECURSIVE Repeat(_, _)
Repeat(q, n) == IF n <= 0 THEN <<>> ELSE q \o Repeat(q, n - 1)

\* The names of the processes that the well-typed calls of the body of a For
\* of spawns emplace in one iteration, in body order
BodyNames(four) ==
    LET WellTyped(call) == ~IllTyped(call)
        calls == SelectSeq(SubSeq(four.elements, 2, Len(four.elements)), WellTyped)
    IN [j \in 1 .. Len(calls) |-> calls[j].elements[1].lexeme]

\* The number of iterations of a For over the range a..b: max(0, b - a)
Iterations(four) ==
    LET a == DecimalValue(four.elements[1].elements[1].digits)
        b == DecimalValue(four.elements[1].elements[2].digits)
    IN IF b > a THEN b - a ELSE 0

\* C24: a program that is one For over a..b whose body is k spawn_process
\* calls succeeds and emplaces, for each i in [a, b) in turn, the processes
\* of the body calls in body order: max(0, b - a) * k processes when all
\* calls are well typed, none when a >= b; a body call that fails emplaces
\* nothing and the calls and iterations after it are still evaluated.  The
\* n-th process emplaced goes to pending[n mod threads_count].
C24_ForIterations ==
    [][(IsEval /\ Len(interpreter'.source.statements) = 1
        /\ ForOfSpawns(interpreter'.source.statements[1]))
       => LET four == interpreter'.source.statements[1]
          IN /\ pc' = "idle"
             /\ interpreter'.outcomes = <<TRUE>>
             /\ [h \in 1 .. Len(heap') |-> heap'[h].name]
                = Repeat(BodyNames(four), Iterations(four))
             /\ \A t \in Cores :
                   processes'[t] = SelectSeq([h \in 1 .. Len(heap') |-> h],
                                             LAMBDA h : (h - 1) % threads_count = t)]_vars

\* for i in 1..3 with the body spawn A, spawn I has emplaced A, I, A, I on
\* cores 0 to 3.
C24_Witness ==
    /\ interpreter.called
    /\ interpreter.source.statements = <<ForTwoBodies>>
    /\ pc = "idle"
    /\ [h \in 1 .. Len(heap) |-> heap[h].name] = <<"A", "I", "A", "I">>
    /\ \A t \in 0 .. 3 : processes[t] = <<t + 1>>

\* An assignment to max_processes
MaxProcessesAssignment(expression) ==
    expression.kind = "Constant" /\ expression.lexeme = "max_processes"

\* C25: the pids produced by spawn_random_process are pairwise different,
\* and each lies in [0, max_processes) (checked for the programs that assign
\* max_processes, if at all, in their first statement).
C25_RandomPids ==
    [][IsEval
       => LET pids == interpreter'.spawned_pids
          IN /\ \A i, j \in 1 .. Len(pids) : i # j => pids[i] # pids[j]
             /\ (\A k \in 2 .. Len(interpreter'.source.statements) :
                    ~MaxProcessesAssignment(interpreter'.source.statements[k]))
                => \A i \in 1 .. Len(pids) : pids[i] < limits'.max_processes]_vars

\* C26: every event of every process emplaced by the spawn_process builtin
\* has duration >= 1.
C26_SpawnedDurations ==
    \A h \in Handles :
       \A k \in 1 .. Len(heap[h].events) : heap[h].events[k].duration >= 1

\* C27: no assertion of the engine fails, and running[t] is empty or holds
\* a process whose event list is non-empty and starts with a Cpu event of
\* duration > 0, for every core t, after any emplace_process, step and
\* restart (the events of the workloads all have duration >= 1).
C27_RunningHeadCpu ==
    /\ pc # "abort"
    /\ \A t \in Cores :
          running[t] # NULL
          => /\ heap[running[t]].events # <<>>
             /\ Head(heap[running[t]].events).kind = "Cpu"
             /\ Head(heap[running[t]].events).duration > 0

\* After a restart, two steps later, both cores of a two-core scheduler are
\* serving a process.
C27_Witness ==
    /\ pc = "idle"
    /\ restarts = 1
    /\ threads_count = 2
    /\ timer >= 2
    /\ running[0] # NULL
    /\ running[1] # NULL
    /\ Head(heap[running[1]].events).kind = "Cpu"

\* C28: no assertion of the engine fails; every process in waiting[t] has
\* a non-empty event list that starts with an Io event of duration > 0, and
\* every process in ready[t] has one that starts with a Cpu event, for every
\* core t (the events of the workloads all have duration >= 1).
C28_WaitingHeadIo ==
    /\ pc # "abort"
    /\ \A t \in Cores :
          /\ \A i \in 1 .. Len(waiting[t]) :
                /\ heap[waiting[t][i]].events # <<>>
                /\ Head(heap[waiting[t][i]].events).kind = "Io"
                /\ Head(heap[waiting[t][i]].events).duration > 0
          /\ \A i \in 1 .. Len(ready[t]) :
                /\ heap[ready[t][i]].events # <<>>
                /\ Head(heap[ready[t][i]].events).kind = "Cpu"

\* On one core B has been served its first Cpu event and I, which arrived
\* on an Io event and went through ready[t], its Cpu event: both wait on an
\* Io event, B with one tick left.
C28_Witness ==
    /\ pc = "idle"
    /\ \E t \in Cores :
          /\ Len(waiting[t]) = 2
          /\ heap[waiting[t][1]].name = "B"
          /\ Head(heap[waiting[t][1]].events).duration = 1
          /\ heap[waiting[t][2]].name = "I"
          /\ Len(heap[waiting[t][2]].events) = 1

\* The processes live on core t: running[t], then ready[t], then waiting[t]
Live(t) == (IF running[t] = NULL THEN <<>> ELSE <<running[t]>>) \o ready[t] \o waiting[t]

\* C29: between operations, the pids of the processes in running[t],
\* ready[t] and waiting[t] are pairwise distinct, for every core t, after
\* any emplace_process, step and restart, also a restart issued while
\* processes of the previous run are live.
C29_LivePidsDistinct ==
    pc = "idle"
    => \A t \in Cores :
          \A i, j \in 1 .. Len(Live(t)) :
             i # j => heap[Live(t)[i]].pid # heap[Live(t)[j]].pid

\* A restart was issued while B was live; afterwards steps have been taken
\* and B, the process of the previous run, is still on its core.
C29_Witness ==
    /\ pc = "idle"
    /\ restarts = 1
    /\ timer >= 1
    /\ before_restart.finished = <<>>
    /\ \E t \in Cores : Live(t) # <<>> /\ Live(t)[1] <= emplaces

\* C30: every process in finished has an empty event list and is in
\* finished once; and an operation that empties the event list of a process
\* leaves the process in finished.
C30_FinishedExactlyEmptied ==
    /\ [](\A i \in 1 .. Len(finished) :
             /\ heap[finished[i]].events = <<>>
             /\ Occurrences(finished, finished[i]) = 1)
    /\ [][\A h \in Handles :
             (heap[h].events # <<>> /\ heap'[h].events = <<>>)
             => Occurrences(finished', h) = 1]_vars

\* On two cores A has finished on a Cpu event and I on an Io event.
C30_Witness ==
    /\ pc = "idle"
    /\ threads_count = 2
    /\ Len(finished) = 2
    /\ {heap[finished[1]].name, heap[finished[2]].name} = {"A", "I"}
    /\ complete

\* C31: for every process, in every reachable state, whenever start_time and
\* finish_time are both set, start_time <= finish_time.
C31_StartBeforeFinish ==
    \A h \in Handles :
        (has_value(heap[h].start_time) /\ has_value(heap[h].finish_time))
        => value(heap[h].start_time) <= value(heap[h].finish_time)

\* The scheduler as constructed with the current policy and threads_count,
\* after emplace_process has been called for the processes of `workload` in
\* that order.
RECURSIVE Emplaced(_)
Emplaced(workload) ==
    IF workload = <<>>
    THEN [heap |-> <<>>, processes |-> [t \in Cores |-> <<>>],
          processes_backup |-> [t \in Cores |-> <<>>], next_thread |-> 0,
          threads_count |-> threads_count, valid_backup |-> FALSE,
          schedule_policy |-> schedule_policy, pc |-> "idle"]
    ELSE emplace_process(Emplaced(SubSeq(workload, 1, Len(workload) - 1)),
                         workload[Len(workload)])

\* That scheduler after n calls of step
RECURSIVE RunOf(_, _)
RunOf(workload, n) ==
    IF n = 0
    THEN LET e == Emplaced(workload)
         IN [heap |-> e.heap, running |-> [t \in Cores |-> NULL],
             processes |-> e.processes, waiting |-> [t \in Cores |-> <<>>],
             ready |-> [t \in Cores |-> <<>>], timer |-> 0,
             cpu_usage |-> [t \in Cores |-> 0], throughput |-> <<0, 1>>,
             previous_finished_count |-> 0, finished |-> <<>>, pc |-> e.pc]
    ELSE step_result(RunOf(workload, n - 1))

\* The workload of the current run, in emplace order: core t got the
\* processes number t + 1, t + 1 + threads_count, ...
Workload ==
    [k \in 1 .. Len(heap) |->
        processes_backup[(k - 1) % threads_count][((k - 1) \div threads_count) + 1]]

\* The workloads that place the same processes on core t as `workload`
SameOnCore(workload, t) ==
    {w \in [1 .. Len(workload) -> Workloads] :
        \A k \in 1 .. Len(workload) : (k - 1) % threads_count = t => w[k] = workload[k]}

\* The subsequence of q of the handles placed on core t
RECURSIVE PlacedOnCore(_, _)
PlacedOnCore(q, t) ==
    IF q = <<>> THEN <<>>
    ELSE (IF (Head(q) - 1) % threads_count = t THEN <<Head(q)>> ELSE <<>>)
         \o PlacedOnCore(Tail(q), t)

\* What is seen of core t in scheduler s: the processes in running[t],
\* ready[t] and waiting[t], and the core-t processes of finished in order
Lane(s, t) ==
    [running |-> IF s.running[t] = NULL THEN <<>> ELSE <<s.heap[s.running[t]]>>,
     ready |-> [i \in 1 .. Len(s.ready[t]) |-> s.heap[s.ready[t][i]]],
     waiting |-> [i \in 1 .. Len(s.waiting[t]) |-> s.heap[s.waiting[t][i]]],
     finished |-> LET q == PlacedOnCore(s.finished, t)
                  IN [i \in 1 .. Len(q) |-> s.heap[q[i]]]]

\* C32: cores are independent lanes: two workloads that place the same
\* processes on core t (same policy, same threads_count) show the same
\* running[t], ready[t] and waiting[t] after every step, and the same
\* core-t processes in finished.
C32_LanesIndependent ==
    (pc = "idle" /\ RunOf(Workload, timer) = Sim)
    => \A t \in 0 .. (threads_count - 1) :
          \A w \in SameOnCore(Workload, t) :
              RunOf(w, timer).pc = "idle" => Lane(RunOf(w, timer), t) = Lane(Sim, t)

\* The pure run agrees with the run of the model.
LanesRunAgrees ==
    pc = "idle" => RunOf(Workload, timer) = Sim

\* C33: between operations, every process in pending[t] (every core index)
\* has arrival >= timer: no process stays in pending after its arrival tick
\* has passed, whatever the order of emplace_process, step, threads_count
\* changes and restart.
C33_PendingNotArrived ==
    pc = "idle"
    => \A t \in Cores : \A i \in 1 .. Len(processes[t]) :
          heap[processes[t][i]].arrival >= timer

\* The total duration of the events of a process, and of its Cpu events
SumDurations(events) == SumSeq([i \in 1 .. Len(events) |-> events[i].duration])

CpuDurations(events) ==
    SumSeq([i \in 1 .. Len(events) |->
               IF events[i].kind = "Cpu" THEN events[i].duration ELSE 0])

\* The process as it was handed to emplace_process (names are unique among
\* the workloads)
Emplaced_Process(h) == CHOOSE p \in Workloads \cup PhaseWorkloads : p.name = heap[h].name

\* Process h was spawned with an Io head and that event has not been popped
InFirstIo(h) ==
    /\ Emplaced_Process(h).events # <<>>
    /\ Head(Emplaced_Process(h).events).kind = "Io"
    /\ Len(heap[h].events) = Len(Emplaced_Process(h).events)

\* A transition is a call of step that returned
IsStepReturn == pc = "idle" /\ pc' = "idle" /\ timer' = timer + 1

\* C34, first consequence: a process that arrived at tick a with an Io head
\* of duration d is in waiting[t] with d - (timer - a) >= 1 ticks left until
\* the step in which timer = a + d - 1 has popped the event.
C34_IoHeadLeaves ==
    pc = "idle"
    => \A h \in Handles :
          (InFirstIo(h) /\ \A t \in Cores : Occurrences(processes[t], h) = 0)
          => /\ \E t \in Cores : Occurrences(waiting[t], h) = 1
             /\ Head(heap[h].events).duration
                    = Head(Emplaced_Process(h).events).duration - (timer - heap[h].arrival)
             /\ Head(heap[h].events).duration >= 1

\* C34, second consequence: a process placed in running[t] during a step has
\* none of its Cpu time served in that step.
C34_PlacedNotServed ==
    [][IsStepReturn
       => \A t \in Cores :
             (running'[t] # NULL /\ running'[t] # running[t])
             => CpuDurations(heap'[running'[t]].events)
                   = CpuDurations(heap[running'[t]].events)]_vars

\* C34, third consequence: no process has the durations of its events
\* reduced by more than 1 in total in a single step.
C34_AtMostOneTick ==
    [][IsStepReturn
       => \A h \in Handles :
             SumDurations(heap[h].events) - SumDurations(heap'[h].events) \in {0, 1}]_vars

\* C34: within one step the phases run per core in the order arrival
\* dispatch, waiting service, running service, policy apply, observation
\* update; consequently a process that arrives at tick a with an Io head of
\* duration d >= 1 leaves waiting[t] during the step in which
\* timer = a + d - 1, a process placed in running[t] during a step gets its
\* first decrement only in the next step, and no process has the durations of
\* its events reduced by more than 1 in total in a single step.
C34_PhaseOrder ==
    /\ []C34_IoHeadLeaves
    /\ C34_PlacedNotServed
    /\ C34_AtMostOneTick

\* What the claim says of the event list after the policy has moved a
\* process with event list `events` to running[t] under quantum q
SplitAsClaimed(events, q) ==
    IF Head(events).duration > q
    THEN <<Event("Cpu", q, Head(events).resource_usage),
           Event("Cpu", Head(events).duration - q, Head(events).resource_usage)>>
         \o Tail(events)
    ELSE events

\* On one core, process h enters running[0] in this step: it comes from
\* pending, ready or waiting, or it is the running process whose head event
\* ends in this step and that is granted the core again.
Granted(h) ==
    /\ running'[0] = h
    /\ \/ running[0] # h
       \/ Len(heap[h].events) > 1 /\ Head(heap[h].events).duration = 1

\* Its event list when it enters ready[0]: a process that was running, or
\* whose head event was Io, has had that event popped by the service phases
\* of the step.
EventsAtGrant(h) ==
    IF running[0] = h \/ Head(heap[h].events).kind = "Io"
    THEN Tail(heap[h].events)
    ELSE heap[h].events

\* C35: the Round-Robin split preserves work.  When the policy moves a
\* process with a head Cpu event of duration d > q to running[t], the event
\* list then starts with a Cpu event of duration q followed by a Cpu event of
\* duration d - q, both with the original resource_usage, and the sum of the
\* durations is unchanged; when d <= q the event list is unchanged.  Stated of
\* the policy applied to every reachable scheduler, and of every step on one
\* core, where the policy is the only way into running[0].
C35_RoundRobinSplit ==
    /\ [](schedule_policy.kind = "RoundRobin" /\ pc = "idle"
          => LET r == RoundRobinPolicy(Sim, schedule_policy.quantum)
             IN \A t \in Cores :
                   (r.pc = "idle" /\ r.running[t] # running[t])
                   => LET h == r.running[t]
                      IN /\ r.heap[h].events
                               = SplitAsClaimed(heap[h].events, schedule_policy.quantum)
                         /\ SumDurations(r.heap[h].events) = SumDurations(heap[h].events))
    /\ [][(schedule_policy.kind = "RoundRobin" /\ threads_count = 1 /\ IsStepReturn)
          => \A h \in Handles :
                Granted(h)
                => /\ heap'[h].events
                         = SplitAsClaimed(EventsAtGrant(h), schedule_policy.quantum)
                   /\ SumDurations(heap'[h].events) = SumDurations(EventsAtGrant(h))]_vars

\* X with [Cpu 5] has been granted the core under quantum 2 and B, with
\* [Cpu 2, ...], waits its turn unsplit.
C35_Witness ==
    /\ pc = "idle" /\ threads_count = 1 /\ schedule_policy = RR(2) /\ timer = 1
    /\ running[0] # NULL
    /\ heap[running[0]].events = <<Event("Cpu", 2, 70), Event("Cpu", 3, 70)>>
    /\ Len(ready[0]) = 1
    /\ heap[ready[0][1]].events = ProcB.events

\* A transition is a call of emplace_process
IsEmplace == emplaces' = emplaces + 1

\* The processes restart has appended to pending[t]
Restored(t) ==
    [i \in 1 .. (Len(processes'[t]) - Len(processes[t])) |->
        heap'[processes'[t][Len(processes[t]) + i]]]

\* The processes in pending[t] after the transition
PendingAfter(t) == [i \in 1 .. Len(processes'[t]) |-> heap'[processes'[t][i]]]

\* C36: the backup is frozen by the first step.  Every emplace_process before
\* the first step appends a copy of the process to processes_backup[core];
\* after the first step no operation (emplace_process, step, restart, policy
\* switch) modifies processes_backup, so mutations of live processes never
\* change the backup; every restart takes the processes it brings back from
\* the backup, and a restart that directly follows a restart leaves the
\* scheduler with the initial workload in pending.
C36_BackupFrozen ==
    /\ [][(IsEmplace /\ ~valid_backup /\ pc' = "idle")
          => /\ processes_backup'[next_thread]
                   = Append(processes_backup[next_thread], heap'[Len(heap')])
             /\ \A t \in Cores \ {next_thread} : processes_backup'[t] = processes_backup[t]]_vars
    /\ [][valid_backup => processes_backup' = processes_backup]_vars
    /\ [](\A t \in Cores : \A i \in 1 .. Len(processes_backup[t]) :
              processes_backup[t][i] \in Workloads)
    /\ [][IsRestart => \A t \in Cores : Restored(t) = processes_backup[t]]_vars
    /\ [][(IsRestart /\ restarts >= 1 /\ timer = 0 /\ ~reconfigured)
          => \A t \in Cores : PendingAfter(t) = processes_backup[t]]_vars

\* The workload was emplaced before the first step with pairwise distinct
\* pids on each core, non-empty event lists and durations >= 1, and neither
\* threads_count nor the policy has been changed since.
WellFormedWorkload ==
    /\ ~reconfigured
    /\ threads_count \in 1 .. MAX_THREADS
    /\ Len(heap) = SumSeq([k \in 1 .. MAX_THREADS |-> Len(processes_backup[k - 1])])
    /\ \A t \in Cores :
          \A i \in 1 .. Len(processes_backup[t]) :
             /\ processes_backup[t][i].events # <<>>
             /\ \A e \in 1 .. Len(processes_backup[t][i].events) :
                    processes_backup[t][i].events[e].duration >= 1
             /\ \A j \in 1 .. Len(processes_backup[t]) :
                    i # j => processes_backup[t][i].pid # processes_backup[t][j].pid

\* C37: eventual completion.  With a well-formed workload emplaced before
\* the first step, repeated step calls reach a state where complete() is true
\* and every emplaced process is in finished.  Once complete() holds no
\* process is live any more and finished cannot grow, so the run must not
\* reach complete() while an emplaced process is missing from finished, and
\* no step may fail to return.
C37_EventualCompletion ==
    (WellFormedWorkload /\ valid_backup)
    => /\ pc = "idle"
       /\ complete => \A h \in Handles : Occurrences(finished, h) = 1

\* C38: every call to spawn_random_process terminates: its pid rejection
\* loop always finds an unused pid, for any value of max_processes and any
\* number of earlier calls, so every evaluation of a program returns.
C38_RandomSpawnTerminates ==
    [][IsEval => pc' # "spin"]_vars

\* The points read from the buffer as the plot reads them: size() entries
\* starting at offset(), wrapping around
Plotted_Points ==
    [i \in 1 .. size(buffer) |-> at(buffer, (offset(buffer) + i - 1) % size(buffer))]

\* The most recent n points emplaced since the last clear, oldest first
MostRecent(n) ==
    SubSeq(plotted.points, Len(plotted.points) - n + 1, Len(plotted.points))

\* C39: after any sequence of emplace_point and clear calls, size() <=
\* capacity, offset() is a valid index (offset() < size() or size() = 0), and
\* reading size() entries starting at offset() and wrapping around yields the
\* most recently inserted points in insertion order; after clear() the buffer
\* behaves like a freshly constructed one.
C39_RingBufferRecent ==
    /\ size(buffer) <= buffer.capacity
    /\ (offset(buffer) < size(buffer) \/ size(buffer) = 0)
    /\ size(buffer) = IF Len(plotted.points) < buffer.capacity
                      THEN Len(plotted.points) ELSE buffer.capacity
    /\ Plotted_Points = MostRecent(size(buffer))
====
